---- MODULE Spec2Model ----
(***************************************************************************)
(* A model of wiki-animals-parser: the paginated crawl                     *)
(* (core/parsing/wiki_animals_parser.py), the grouping by first letter     *)
(* (core/data/data_structurer.py), the collision-safe CSV writer           *)
(* (core/reporting/report_writer.py), the configuration loader             *)
(* (core/config.py) and the pipeline of main.py.                           *)
(*                                                                         *)
(* Text is modelled as sequences of one-character strings, so that         *)
(* capitalisation and first-character extraction are computed character    *)
(* by character.  Python's None is the token None; a missing HTML          *)
(* attribute is the token NoAttr.                                          *)
(***************************************************************************)
EXTENDS Integers, Sequences, FiniteSets, TLC

VARIABLES
    \* ---- DataStructurer
    data,               \* DataStructurer.animal_names (the constructor argument)
    unique_names,       \* the intermediate Series of line 56
    grouped,            \* the rows returned by group_animals_by_first_letter
    apc,                \* "idle" | "new" (constructed) | "done"
    \* ---- WikiAnimalsParser
    base_url,           \* self.base_url
    animal_names,       \* self.animal_names
    parsed_pages_count, \* self.parsed_pages_count
    pc,                 \* "idle" | "fetch" | "process" | "returned" | "raised"
    cur,                \* relative_url of the innermost active parse() frame
    soup,               \* the document held by the innermost frame
    depth,              \* number of active parse() frames
    result,             \* the value returned by the top-level parse()
    error,              \* the exception that left parse(), or None
    \* ---- the world and what was observed of it
    site,               \* page path -> response served for it
    fetchLog,           \* paths requested with requests.get, in order
    pageLog,            \* paths whose extraction completed, in order
    calls,              \* number of top-level parse() calls made so far
    callMark,           \* the logs' and the parser's sizes when the current call began
    \* ---- main.py, Config, CSVReportWriter
    mpc,                \* position in main()
    env,                \* content of the .env file
    config,             \* attributes of the Config object
    loggerSet,          \* LoggerConfigurator.setup_logger has run
    files,              \* path -> content, the files of the report directory
    output_file_path,   \* writer instance -> self.output_file_path
    wrote               \* the last to_csv: its path, the files before it, and how many so far

vars == << data, unique_names, grouped, apc,
           base_url, animal_names, parsed_pages_count, pc, cur, soup, depth,
           result, error, site, fetchLog, pageLog, calls, callMark,
           mpc, env, config, loggerSet, files, output_file_path, wrote >>

aggVars    == << data, unique_names, grouped, apc >>
parserVars == << base_url, animal_names, parsed_pages_count, pc, cur, soup,
                 depth, result, error >>
worldVars  == << site, fetchLog, pageLog, calls, callMark >>
mainVars   == << mpc, env, config, loggerSet >>
writerVars == << files, output_file_path, wrote >>

None   == "<None>"
NoAttr == "<no attribute>"
NaN    == "<NaN>"

\* ---------------------------------------------------------------- bounds
MaxNames   == 2   \* length of the list given to DataStructurer
MaxNameLen == 2   \* characters in one name

\* ------------------------------------------------------------ characters
Alphabet == {"a", "A", "b"}

Upper(c) == CASE c = "a" -> "A" [] c = "b" -> "B" [] OTHER -> c
Lower(c) == CASE c = "A" -> "a" [] c = "B" -> "b" [] OTHER -> c
Ord(c)   == CASE c = "A" -> 65 [] c = "B" -> 66 [] c = "a" -> 97 [] c = "b" -> 98

Strs(n)     == UNION { [1..k -> Alphabet] : k \in 0..n }
Lists(S, n) == UNION { [1..k -> S] : k \in 0..n }
Range(s)    == { s[i] : i \in 1..Len(s) }

RECURSIVE SumCounts(_)
SumCounts(rows) ==
    IF rows = << >> THEN 0 ELSE Head(rows).count + SumCounts(Tail(rows))

\* ======================================================== DataStructurer

\* A plausible slip: only the first character is touched.
CapitalizeFirstOnly(s) ==
    IF s = << >> THEN s ELSE [i \in 1..Len(s) |-> IF i = 1 THEN Upper(s[1]) ELSE s[i]]

\* Series.str.capitalize(): str.capitalize on each element, which upper-cases
\* the first character and lower-cases every other one.
Capitalize(s) ==
    [i \in 1..Len(s) |-> IF i = 1 THEN Upper(s[i]) ELSE Lower(s[i])]

\* The first occurrence of each value of s, in order.
FirstOccurrences(s) ==
    LET keep == { i \in 1..Len(s) : \A j \in 1..(i - 1) : s[j] # s[i] }
        F[i \in 0..Len(s)] ==
            IF i = 0 THEN << >>
            ELSE IF i \in keep THEN Append(F[i - 1], s[i]) ELSE F[i - 1]
    IN F[Len(s)]

DropDuplicatesNone(s) == s

\* Series.drop_duplicates(): keep="first".
DropDuplicates(s) == FirstOccurrences(s)

\* Series.str[0]: the first character, NaN for an empty string.
StrGet0(s) == IF Len(s) = 0 THEN NaN ELSE s[1]

\* Insertion of row r into rows kept in descending count order, after its ties.
RECURSIVE InsertByCount(_, _)
InsertByCount(rows, r) ==
    IF rows = << >> THEN << r >>
    ELSE IF Head(rows).count >= r.count
         THEN << Head(rows) >> \o InsertByCount(Tail(rows), r)
         ELSE << r >> \o rows

\* Series.value_counts().rename_axis("first_letter").reset_index(name="count"):
\* one row per distinct non-NaN value (dropna=True), most frequent first, ties
\* in order of first appearance.
ValueCounts(letters) ==
    LET present == SelectSeq(FirstOccurrences(letters), LAMBDA c : c # NaN)
        row(c)  == [first_letter |-> c,
                    count |-> Cardinality({ i \in 1..Len(letters) : letters[i] = c })]
        F[i \in 0..Len(present)] ==
            IF i = 0 THEN << >> ELSE InsertByCount(F[i - 1], row(present[i]))
    IN F[Len(present)]

RECURSIVE InsertByKey(_, _)
InsertByKey(rows, r) ==
    IF rows = << >> THEN << r >>
    ELSE IF Ord(Head(rows).first_letter) <= Ord(r.first_letter)
         THEN << Head(rows) >> \o InsertByKey(Tail(rows), r)
         ELSE << r >> \o rows

SortValuesNone(rows) == rows

\* DataFrame.sort_values(by="first_letter"): ascending by code point.
SortValues(rows) ==
    LET F[i \in 0..Len(rows)] ==
            IF i = 0 THEN << >> ELSE InsertByKey(F[i - 1], rows[i])
    IN F[Len(rows)]

\* DataStructurer.group_animals_by_first_letter
GroupAnimalsByFirstLetter ==
    /\ apc = "new"
    /\ IF data = << >>
       THEN /\ unique_names' = << >>
            /\ grouped' = << >>
       ELSE LET u  == DropDuplicates([i \in 1..Len(data) |-> Capitalize(data[i])])
                fl == [i \in 1..Len(u) |-> StrGet0(u[i])]
            IN /\ unique_names' = u
               /\ grouped' = SortValues(ValueCounts(fl))
    /\ apc' = "done"
    /\ UNCHANGED << data, parserVars, worldVars, mainVars, writerVars >>


\* ===================================================== WikiAnimalsParser

NPages   == 2   \* pages of the site
MaxDepth == 3   \* active parse() frames explored before the crawl is cut off
MaxCalls == 2   \* top-level parse() calls on one parser instance
MaxLi      == 2 \* li elements in a document given to the extractor alone
MaxAnchors == 2 \* anchors inside one li element

AllPaths == << "/p1", "/p2", "/p3", "/p4", "/p5" >>
Paths    == { AllPaths[i] : i \in 1..NPages }
BaseUrl  == "https://wiki/"

\* <a> elements inside an <li>, in document order.  An anchor has a title
\* attribute or none; the attribute's value may be the empty string.
Titles  == { << >>, << "a" >>, << "b" >> }
Anchors == { [has_title |-> FALSE, title |-> << >>] }
             \cup { [has_title |-> TRUE, title |-> t] : t \in Titles }
A(t)    == [has_title |-> TRUE, title |-> t]
NoTitle == [has_title |-> FALSE, title |-> << >>]

\* An <li> of the document: whether it lies inside
\* div.mw-category.mw-category-columns, and its anchors.
Li(in, as) == [in_container |-> in, anchors |-> as]
AllLis     == { Li(in, as) : in \in BOOLEAN, as \in Lists(Anchors, MaxAnchors) }

\* A parsed document: its <li> elements and the href of the first anchor whose
\* text is the next-page label and which has an href (NoAttr when there is none).
Soup(lis, href) == [lis |-> lis, next_href |-> href]
EmptySoup       == Soup(<< >>, NoAttr)

\* Documents served by the pages of a crawled site.
PageLis == { << >>,
             << Li(TRUE, << A(<< "a" >>) >>) >>,
             << Li(TRUE, << A(<< "b" >>) >>), Li(FALSE, << A(<< "b" >>) >>),
                Li(TRUE, << A(<< "a" >>) >>) >>,
             << Li(TRUE, << NoTitle, A(<< "b" >>) >>) >> }
Hrefs == { NoAttr, "" } \cup Paths

\* What requests.get hands back for a path: no answer at all (transport
\* failure), or the final status code and the body.  304 stands for the 1xx
\* and 3xx answers requests returns as they are (a 304 has no body), 404 and
\* 503 for the client and server errors; none of them carries a listing.
Responses ==
    { [conn |-> TRUE, status |-> 200, soup |-> Soup(l, h)] : l \in PageLis, h \in Hrefs }
      \cup { [conn |-> TRUE, status |-> 304, soup |-> EmptySoup],
             [conn |-> TRUE, status |-> 404, soup |-> EmptySoup],
             [conn |-> TRUE, status |-> 503, soup |-> EmptySoup],
             [conn |-> FALSE, status |-> 0, soup |-> EmptySoup] }
Sites == [Paths -> Responses]

\* if x: ... on an Optional[str]
Truthy(x) == x # None /\ x # ""

\* urllib.parse.unquote on a locator without percent escapes returns it
\* unchanged; the locators of the model carry none.
Unquote(url) == url

\* urllib.parse.urljoin: "if not base: return url" comes first, then
\* "if not url: return base".  The result is the pair of the base it keeps
\* ("" when the url is returned alone, without a scheme) and the path.
Urljoin(base, url) ==
    IF ~Truthy(base) THEN [base |-> "", path |-> url]
    ELSE IF ~Truthy(url) THEN [base |-> base, path |-> ""]
    ELSE [base |-> base, path |-> url]

RaiseForStatusNever(status) == FALSE

\* Response.raise_for_status(): HTTPError for 4xx and 5xx.
RaiseForStatus(status) == status >= 400 /\ status < 600

\* WikiAnimalsParser._get_li_elements
GetLiElements(s) == SelectSeq(s.lis, LAMBDA li : li.in_container)

\* WikiAnimalsParser._get_next_relative_url
GetNextRelativeUrl(s) == IF s.next_href = NoAttr THEN None ELSE s.next_href

\* li.find("a", title=True): some anchor carries a title attribute.
LiFindATitle(li) == \E i \in 1..Len(li.anchors) : li.anchors[i].has_title

\* A plausible slip: a name already collected is not appended again.
RECURSIVE AddAnimalsToDataUnique(_, _)
AddAnimalsToDataUnique(names, lis) ==
    IF lis = << >> THEN [names |-> names, raised |-> FALSE]
    ELSE LET li == Head(lis) IN
         IF LiFindATitle(li)
         THEN IF ~li.anchors[1].has_title
              THEN [names |-> names, raised |-> TRUE]
              ELSE IF li.anchors[1].title \in Range(names)
                   THEN AddAnimalsToDataUnique(names, Tail(lis))
                   ELSE AddAnimalsToDataUnique(Append(names, li.anchors[1].title), Tail(lis))
         ELSE AddAnimalsToDataUnique(names, Tail(lis))

\* The loop of WikiAnimalsParser._add_animals_to_data.  li.a is the first
\* anchor of the li; li.a["title"] raises KeyError when that anchor has no
\* title.  The names appended before the raise stay in the list.
RECURSIVE AddAnimalsToData(_, _)
AddAnimalsToData(names, lis) ==
    IF lis = << >> THEN [names |-> names, raised |-> FALSE]
    ELSE LET li == Head(lis) IN
         IF LiFindATitle(li)
         THEN IF ~li.anchors[1].has_title
              THEN [names |-> names, raised |-> TRUE]
              ELSE AddAnimalsToData(Append(names, li.anchors[1].title), Tail(lis))
         ELSE AddAnimalsToData(names, Tail(lis))

\* WikiAnimalsParser.__init__
ParserInit(url) ==
    /\ base_url' = url
    /\ animal_names' = << >>
    /\ parsed_pages_count' = 0
    /\ pc' = "idle"
    /\ cur' = None
    /\ soup' = EmptySoup
    /\ depth' = 0
    /\ result' = << >>
    /\ error' = None

\* A caller invokes parser.parse(relative_url=start).
TopLevelParse(start) ==
    /\ pc \in {"idle", "returned", "raised"}
    /\ cur' = start
    /\ pc' = "fetch"
    /\ depth' = 1
    /\ error' = None
    /\ calls' = calls + 1
    /\ callMark' = [start |-> start, fetched |-> Len(fetchLog),
                    processed |-> Len(pageLog)]
    /\ UNCHANGED << base_url, animal_names, parsed_pages_count, soup, result,
                    site, fetchLog, pageLog >>

\* parse, lines 43-47, with _get_soup_object: resolve the locator and fetch.
Fetch ==
    /\ pc = "fetch"
    /\ IF cur = None
       THEN \* unquote(None)
            /\ pc' = "raised" /\ error' = "TypeError"
            /\ UNCHANGED << soup, fetchLog >>
       ELSE LET full_url == Urljoin(base_url, Unquote(cur)) IN
            IF full_url.base = ""
            THEN \* requests.get on a URL without a scheme
                 /\ pc' = "raised" /\ error' = "MissingSchema"
                 /\ UNCHANGED << soup, fetchLog >>
            ELSE LET r == site[full_url.path] IN
                 /\ fetchLog' = Append(fetchLog, full_url.path)
                 /\ IF ~r.conn
                    THEN /\ pc' = "raised" /\ error' = "ConnectionError"
                         /\ UNCHANGED soup
                    ELSE IF RaiseForStatus(r.status)
                    THEN /\ pc' = "raised" /\ error' = "HTTPError"
                         /\ UNCHANGED soup
                    ELSE /\ pc' = "process" /\ soup' = r.soup
                         /\ UNCHANGED error
    /\ UNCHANGED << base_url, animal_names, parsed_pages_count, cur, depth, result,
                    site, pageLog, calls, callMark, aggVars, mainVars, writerVars >>

\* parse, lines 49-59: extract, count the page, follow the next page or return.
Process ==
    /\ pc = "process"
    /\ LET r    == AddAnimalsToData(animal_names, GetLiElements(soup))
           next == GetNextRelativeUrl(soup)
       IN /\ animal_names' = r.names
          /\ IF r.raised
             THEN /\ pc' = "raised" /\ error' = "KeyError"
                  /\ UNCHANGED << parsed_pages_count, cur, depth, result, pageLog >>
             ELSE /\ parsed_pages_count' = parsed_pages_count + 1
                  /\ pageLog' = Append(pageLog, fetchLog[Len(fetchLog)])
                  /\ IF Truthy(next)
                     THEN /\ depth < MaxDepth
                          /\ cur' = next /\ depth' = depth + 1 /\ pc' = "fetch"
                          /\ UNCHANGED << result, error >>
                     ELSE /\ pc' = "returned" /\ result' = r.names
                          /\ UNCHANGED << cur, depth, error >>
    /\ UNCHANGED << base_url, soup, site, fetchLog, calls, callMark,
                    aggVars, mainVars, writerVars >>


\* ================================================================ Config

Keys     == {"LOG_FILE", "REPORT_DIR", "REPORT_FILENAME", "BASE_URL", "RELATIVE_URL"}
ExtraKey == "COMMENT"
Absent   == "<absent>"

\* The value a key has when the .env file sets it.
SetValue(k) ==
    CASE k = "BASE_URL" -> BaseUrl
      [] k = "RELATIVE_URL" -> "/p1"
      [] k = "REPORT_FILENAME" -> "report"
      [] OTHER -> "x"

\* .env files: a key is absent, present without a value (None), present with
\* an empty value, or set.
Envs == { e \in [Keys \cup {ExtraKey} -> {Absent, None, "", "x", BaseUrl, "/p1", "report"}] :
            \A k \in DOMAIN e : e[k] \in {Absent, None, "", SetValue(k)} }

\* dict.get(key)
EnvGet(e, k) == IF e[k] = Absent THEN None ELSE e[k]

\* Config._validate: the keys of the file whose value is falsy.
Missing(e) == { k \in DOMAIN e : e[k] # Absent /\ ~Truthy(e[k]) }

NoConfig == [LOG_FILE |-> None, REPORT_DIR |-> None, REPORT_FILENAME |-> None,
             BASE_URL |-> None, RELATIVE_URL |-> None]

\* ======================================================= CSVReportWriter

NWriters == 2   \* writer instances sharing one directory and base filename
MaxPre   == 2   \* paths <name>.csv, <name>(1).csv, ... that may exist beforehand
MaxFiles == 4   \* files in the directory after which no further write is explored

Writers == 1..NWriters

\* f"{x}" of an Optional[str]
Fmt(x) == IF x = None THEN "None" ELSE x

\* report_dir / f"{name}.csv" is Path(name, 0); report_dir / f"{name}({k}).csv"
\* is Path(name, k).
Path(name, k) == [name |-> name, k |-> k]
NoPath        == Path("", 0)

\* Two non-empty aggregations and the empty one.
Df1 == << [first_letter |-> "A", count |-> 1] >>
Df2 == << [first_letter |-> "B", count |-> 2] >>
Dfs == { << >>, Df1, Df2 }
\* The content of a report left by an earlier run.
DfOld == << [first_letter |-> "A", count |-> 3] >>

\* A plausible slip: the existence test is made once.
GenerateUniqueFilePathOnce(path, name, counter, existing) ==
    IF path \in existing THEN Path(Fmt(name), counter) ELSE path

\* The loop of CSVReportWriter._generate_unique_file_path: the value of
\* self.output_file_path when it ends.
RECURSIVE GenerateUniqueFilePath(_, _, _, _)
GenerateUniqueFilePath(path, name, counter, existing) ==
    IF path \in existing
    THEN GenerateUniqueFilePath(Path(Fmt(name), counter), name, counter + 1, existing)
    ELSE path

\* CSVReportWriter.write on instance w, whose base filename is name.
Write(w, name, df) ==
    IF df = << >>
    THEN UNCHANGED << files, output_file_path, wrote >>
    ELSE LET path == GenerateUniqueFilePath(output_file_path[w], name, 1, DOMAIN files) IN
         /\ output_file_path' = [output_file_path EXCEPT ![w] = path]
         /\ files' = [p \in DOMAIN files \cup {path} |-> IF p = path THEN df ELSE files[p]]
         /\ wrote' = [path |-> path, before |-> files, n |-> wrote.n + 1]

\* CSVReportWriter.__init__ for every instance, all with base filename name.
WriterInit(name) ==
    output_file_path' = [w \in Writers |-> Path(Fmt(name), 0)]

\* A caller invokes writer.write(df) on one of the instances.
WriterWrite ==
    /\ Cardinality(DOMAIN files) < MaxFiles
    /\ \E w \in Writers, df \in Dfs : Write(w, "report", df)
    /\ UNCHANGED << aggVars, parserVars, worldVars, mainVars >>

\* =============================================================== main.py

\* main, line 29: Config().  Path(project) / None raises TypeError.
MainConfig ==
    /\ mpc = "start"
    /\ IF EnvGet(env, "LOG_FILE") = None \/ EnvGet(env, "REPORT_DIR") = None
       THEN /\ mpc' = "crashed" /\ error' = "TypeError"
            /\ UNCHANGED config
       ELSE /\ config' = [k \in Keys |-> EnvGet(env, k)]
            /\ IF Missing(env) # {}
               THEN mpc' = "crashed" /\ error' = "ValueError"
               ELSE mpc' = "configured" /\ UNCHANGED error
    /\ UNCHANGED << env, loggerSet, aggVars, worldVars, writerVars,
                    base_url, animal_names, parsed_pages_count, pc, cur, soup,
                    depth, result >>

\* main, line 32
MainSetupLogger ==
    /\ mpc = "configured"
    /\ loggerSet' = TRUE
    /\ mpc' = "logging"
    /\ UNCHANGED << env, config, aggVars, parserVars, worldVars, writerVars >>

\* main, line 35: the parser is constructed; the site it will crawl is
\* whatever the server holds at that time.
MainParserInit ==
    /\ mpc = "logging"
    /\ ParserInit(config.BASE_URL)
    /\ site' \in Sites
    /\ mpc' = "parser"
    /\ UNCHANGED << env, config, loggerSet, fetchLog, pageLog, calls, callMark,
                    aggVars, writerVars >>

\* main, line 36: parser.parse(relative_url=config.RELATIVE_URL)
MainParse ==
    /\ mpc = "parser"
    /\ TopLevelParse(config.RELATIVE_URL)
    /\ mpc' = "parsing"
    /\ UNCHANGED << env, config, loggerSet, aggVars, writerVars >>

\* main, line 39: DataStructurer(data=animal_names)
MainStructurer ==
    /\ mpc = "parsing" /\ pc = "returned"
    /\ data' = result
    /\ apc' = "new"
    /\ mpc' = "structuring"
    /\ UNCHANGED << unique_names, grouped, env, config, loggerSet,
                    parserVars, worldVars, writerVars >>

\* main, lines 43-46: CSVReportWriter(report_dir, report_filename)
MainWriterInit ==
    /\ mpc = "structuring" /\ apc = "done"
    /\ WriterInit(config.REPORT_FILENAME)
    /\ mpc' = "writer"
    /\ UNCHANGED << files, wrote, env, config, loggerSet, aggVars, parserVars, worldVars >>

\* main, line 47: report_writer.write(df=grouped_animals)
MainWrite ==
    /\ mpc = "writer"
    /\ Write(1, config.REPORT_FILENAME, grouped)
    /\ mpc' = "done"
    /\ UNCHANGED << env, config, loggerSet, aggVars, parserVars, worldVars >>

\* ======================================================== specifications

NoFiles == [p \in {} |-> << >>]
NoWrite == [path |-> NoPath, before |-> NoFiles, n |-> 0]
NoMark  == [start |-> None, fetched |-> 0, processed |-> 0]
NoEnv   == [k \in Keys \cup {ExtraKey} |-> Absent]
NoSite  == [p \in {} |-> EmptySoup]

AggIdle ==
    data = << >> /\ unique_names = << >> /\ grouped = << >> /\ apc = "idle"
ParserNew ==
    /\ base_url = BaseUrl /\ animal_names = << >> /\ parsed_pages_count = 0
    /\ pc = "idle" /\ cur = None /\ soup = EmptySoup /\ depth = 0
    /\ result = << >> /\ error = None
WorldIdle ==
    fetchLog = << >> /\ pageLog = << >> /\ calls = 0 /\ callMark = NoMark
MainIdle ==
    mpc = "off" /\ env = NoEnv /\ config = NoConfig /\ loggerSet = FALSE
WriterIdle ==
    files = NoFiles /\ output_file_path = [w \in Writers |-> NoPath] /\ wrote = NoWrite

\* --- the aggregation alone: DataStructurer(data) for every bounded list
InitAgg ==
    /\ data \in Lists(Strs(MaxNameLen), MaxNames)
    /\ unique_names = << >> /\ grouped = << >> /\ apc = "new"
    /\ ParserNew /\ site = NoSite /\ WorldIdle /\ MainIdle /\ WriterIdle
NextAgg == GroupAnimalsByFirstLetter
SpecAgg == InitAgg /\ [][NextAgg]_vars

\* --- the extraction alone: a first page has just been fetched, for every
\* bounded document without a next-page link
InitExtract ==
    /\ soup \in { Soup(l, NoAttr) : l \in Lists(AllLis, MaxLi) }
    /\ base_url = BaseUrl /\ animal_names = << >> /\ parsed_pages_count = 0
    /\ pc = "process" /\ cur = "/p1" /\ depth = 1 /\ result = << >> /\ error = None
    /\ site = NoSite /\ fetchLog = << "/p1" >> /\ pageLog = << >>
    /\ calls = 1 /\ callMark = [NoMark EXCEPT !.start = "/p1"]
    /\ AggIdle /\ MainIdle /\ WriterIdle
NextExtract == Process
SpecExtract == InitExtract /\ [][NextExtract]_vars

\* --- one crawl on a freshly constructed parser
InitCrawl ==
    /\ ParserNew /\ site \in Sites /\ WorldIdle
    /\ AggIdle /\ MainIdle /\ WriterIdle
ParseOnce ==
    /\ calls = 0
    /\ \E start \in Paths : TopLevelParse(start)
    /\ UNCHANGED << aggVars, mainVars, writerVars >>
NextCrawl == ParseOnce \/ Fetch \/ Process
SpecCrawl == InitCrawl /\ [][NextCrawl]_vars

\* --- several crawls on one parser instance
ParseAgain ==
    /\ calls < MaxCalls
    /\ \E start \in Paths : TopLevelParse(start)
    /\ UNCHANGED << aggVars, mainVars, writerVars >>
NextReuse == ParseAgain \/ Fetch \/ Process
SpecReuse == InitCrawl /\ [][NextReuse]_vars

\* --- writers sharing a directory that may hold earlier reports
InitWriter ==
    /\ \E pre \in SUBSET { Path("report", k) : k \in 0..(MaxPre - 1) } :
          files = [p \in pre |-> DfOld]
    /\ output_file_path = [w \in Writers |-> Path("report", 0)]
    /\ wrote = NoWrite
    /\ AggIdle /\ ParserNew /\ site = NoSite /\ WorldIdle /\ MainIdle
NextWriter == WriterWrite
SpecWriter == InitWriter /\ [][NextWriter]_vars

\* --- the pipeline of main()
InitMain ==
    /\ mpc = "start" /\ env \in Envs /\ config = NoConfig /\ loggerSet = FALSE
    /\ \E pre \in SUBSET { Path("report", 0) } : files = [p \in pre |-> DfOld]
    /\ output_file_path = [w \in Writers |-> NoPath] /\ wrote = NoWrite
    /\ AggIdle /\ ParserNew /\ site = NoSite /\ WorldIdle
NextMain ==
    \/ MainConfig \/ MainSetupLogger \/ MainParserInit \/ MainParse
    \/ Fetch \/ Process
    \/ MainStructurer \/ GroupAnimalsByFirstLetter
    \/ MainWriterInit \/ MainWrite
SpecMain == InitMain /\ [][NextMain]_vars


\* ================================================================ claims

\* ---- what the claims speak of

\* The names one page contributes: the extraction run on that page alone.
ExtractedNames(s) == AddAnimalsToData(<< >>, GetLiElements(s)).names

RECURSIVE ConcatNames(_)
ConcatNames(paths) ==
    IF paths = << >> THEN << >>
    ELSE ExtractedNames(site[Head(paths)].soup) \o ConcatNames(Tail(paths))

RECURSIVE SumExtracted(_)
SumExtracted(paths) ==
    IF paths = << >> THEN 0
    ELSE Len(ExtractedNames(site[Head(paths)].soup)) + SumExtracted(Tail(paths))

\* The fetches of the current top-level call.
CallFetches == SubSeq(fetchLog, callMark.fetched + 1, Len(fetchLog))

\* A page whose fetch fails: no answer, or an answer that is not a success.
PageFails(p) == ~site[p].conn \/ site[p].status < 200 \/ site[p].status > 299

\* A page that gives no answer, or a client or server error (4xx, 5xx).
PageErrors(p) == ~site[p].conn \/ site[p].status \in 400..599

\* The pages reachable from p through next-page references, at most n of them.
RECURSIVE Chain(_, _)
Chain(p, n) ==
    IF n = 0 THEN << >>
    ELSE IF Truthy(GetNextRelativeUrl(site[p].soup))
         THEN << p >> \o Chain(GetNextRelativeUrl(site[p].soup), n - 1)
         ELSE << p >>

\* The chain from p is finite and acyclic, and every page of it can be fetched.
GoodChain(p) ==
    LET c == Chain(p, NPages + 1) IN
    /\ Len(c) <= NPages
    /\ \A i, j \in 1..Len(c) : i # j => c[i] # c[j]
    /\ \A i \in 1..Len(c) : ~PageFails(c[i])

IsPrefix(s, t) == Len(s) <= Len(t) /\ \A i \in 1..Len(s) : s[i] = t[i]

\* Normalisation as the specification words it: first character upper-cased,
\* the rest as it is.
UpperFirstRestAsIs(s) == [i \in 1..Len(s) |-> IF i = 1 THEN Upper(s[i]) ELSE s[i]]

\* First character upper-cased, every other character lower-cased.
UpperFirstRestLower(s) == [i \in 1..Len(s) |-> IF i = 1 THEN Upper(s[i]) ELSE Lower(s[i])]

\* The rows are the counts of distinct Norm-names per first character of the
\* Norm-name, over the non-empty names of data.
NonEmptyNames == { n \in Range(data) : n # << >> }
RowsCountBy(Norm(_)) ==
    /\ \A i \in 1..Len(grouped) :
          grouped[i].count =
             Cardinality({ Norm(n) : n \in { m \in NonEmptyNames :
                                             Norm(m)[1] = grouped[i].first_letter } })
    /\ \A n \in NonEmptyNames :
          \E i \in 1..Len(grouped) : grouped[i].first_letter = Norm(n)[1]

\* The names the specification's extractor yields: per li of the container, in
\* order, the title of its first anchor that has a non-empty title.
RECURSIVE FirstTitled(_)
FirstTitled(as) ==
    IF as = << >> THEN << >>
    ELSE IF Head(as).has_title /\ Head(as).title # << >>
         THEN << Head(as).title >>
         ELSE FirstTitled(Tail(as))

RECURSIVE ListedNames(_)
ListedNames(lis) ==
    IF lis = << >> THEN << >>
    ELSE (IF Head(lis).in_container THEN FirstTitled(Head(lis).anchors) ELSE << >>)
         \o ListedNames(Tail(lis))

\* The path the specification gives a write: <name>.csv if unused, otherwise
\* <name>(k).csv for the least k >= 1 that is unused.
LeastUnused(name, existing) ==
    CHOOSE k \in 1..(Cardinality(existing) + 1) :
        /\ Path(name, k) \notin existing
        /\ \A j \in 1..(k - 1) : Path(name, j) \in existing
SpecifiedPath(name, existing) ==
    IF Path(name, 0) \notin existing THEN Path(name, 0)
    ELSE Path(name, LeastUnused(name, existing))

RequiredMissing == \E k \in Keys : env[k] \in {Absent, ""}

\* ---- C1
\* C1: on a freshly constructed parser, no page is fetched after the first
\* page that yields no next-page reference, and the returned list is the
\* concatenation, in visit order, of the names extracted from each visited
\* page, so its length is the sum of the per-page counts.
C1_StopsAtLastPageAndKeepsEveryName ==
    /\ \A i \in 1..(Len(fetchLog) - 1) :
          GetNextRelativeUrl(site[fetchLog[i]].soup) # None
    /\ pc = "returned" =>
          /\ result = ConcatNames(fetchLog)
          /\ Len(result) = SumExtracted(fetchLog)

C1_Witness ==
    /\ pc = "returned" /\ Len(fetchLog) = 2
    /\ \E i, j \in 1..Len(result) : i # j /\ result[i] = result[j]
    /\ \E i, j \in 1..Len(result) : result[i] # result[j]

\* ---- C2
\* What C2 says of the pages in Failing: such a page is the last page
\* fetched; the failure leaves parse as an exception, the names collected so
\* far never reach the DataStructurer, and no report file is written.
FailureAbortsTheRun(Failing(_)) ==
    \A i \in 1..Len(fetchLog) :
        Failing(fetchLog[i]) =>
            /\ i = Len(fetchLog)
            /\ pc = "raised" /\ error \in {"HTTPError", "ConnectionError"}
            /\ mpc = "parsing"
            /\ apc = "idle" /\ data = << >>
            /\ wrote = NoWrite

\* C2 as stated: a fetch answered with any non-success status, or not
\* answered, aborts the run: nothing is fetched after it, nothing reaches the
\* DataStructurer and no report is written.
C2_NonSuccessAbortsTheRun == FailureAbortsTheRun(PageFails)

\* C2 amended: a fetch answered with a 4xx or 5xx status, or not answered,
\* aborts the run: nothing is fetched after it, nothing reaches the
\* DataStructurer and no report is written.
C2_ErrorStatusAbortsTheRun == FailureAbortsTheRun(PageErrors)

C2_Witness ==
    /\ pc = "raised" /\ error = "HTTPError"
    /\ Len(fetchLog) = 2 /\ animal_names # << >>

\* ---- C3
\* C3 as stated: the counts sum to the number of distinct normalised names.
C3_SumIsDistinctNormalized ==
    apc = "done" =>
        SumCounts(grouped) = Cardinality({ Capitalize(n) : n \in Range(data) })

\* C3 amended: the counts sum to the number of distinct non-empty normalised
\* names; an empty name has no first letter and is counted in no row.
C3_SumIsDistinctNonEmptyNormalized ==
    apc = "done" =>
        SumCounts(grouped) = Cardinality({ Capitalize(n) : n \in NonEmptyNames })

C3_Witness ==
    /\ apc = "done" /\ Len(data) = 2
    /\ data[1] # data[2] /\ data[1] # << >> /\ data[2] # << >>
    /\ SumCounts(grouped) = 1

\* ---- C4
\* C4 as stated: names are de-duplicated and grouped by the name with its
\* first character upper-cased and the rest left as it is.
C4_RestLeftAsIs == apc = "done" => RowsCountBy(UpperFirstRestAsIs)

\* C4 amended: names are de-duplicated and grouped by the name with its first
\* character upper-cased and every other character lower-cased; the key is
\* the first character of that form.
C4_RestLowerCased == apc = "done" => RowsCountBy(UpperFirstRestLower)

C4_Witness ==
    /\ apc = "done" /\ Len(data) = 2
    /\ Len(data[1]) = 2 /\ Len(data[2]) = 2
    /\ UpperFirstRestAsIs(data[1]) # UpperFirstRestAsIs(data[2])
    /\ grouped = << [first_letter |-> "A", count |-> 1] >>

\* ---- C5
\* C5: the keys of the rows are pairwise distinct and ascending; the empty
\* list yields no row.
C5_KeysDistinctAscending ==
    apc = "done" =>
        /\ \A i, j \in 1..Len(grouped) :
              i < j => Ord(grouped[i].first_letter) < Ord(grouped[j].first_letter)
        /\ data = << >> => grouped = << >>

C5_Witness ==
    /\ apc = "done" /\ Len(grouped) = 2
    /\ Upper(data[1][1]) = "B"

\* ---- C6
\* C6: every write of a non-empty aggregation goes to a path that did not
\* exist before it, <name>.csv if unused and otherwise <name>(k).csv for the
\* first unused k counted from 1, and leaves every earlier file as it was.
C6_WritesNeverOverwrite ==
    wrote.n > 0 =>
        /\ wrote.path \notin DOMAIN wrote.before
        /\ wrote.path = SpecifiedPath("report", DOMAIN wrote.before)
        /\ \A p \in DOMAIN wrote.before : p \in DOMAIN files /\ files[p] = wrote.before[p]
        /\ wrote.path \in DOMAIN files

C6_Witness ==
    /\ wrote.n = 3 /\ wrote.path = Path("report", 2)
    /\ DOMAIN files = { Path("report", 0), Path("report", 1), Path("report", 2) }
    /\ \E w \in Writers : output_file_path[w] = Path("report", 0)

\* ---- C7
\* C7 as stated: extraction never raises, and yields in document order the
\* title of the titled anchor of every li of the container that has an anchor
\* with a non-empty title.
C7_ExtractionIsTotalAndExact ==
    pc # "process" =>
        /\ error = None
        /\ animal_names = ListedNames(soup.lis)

\* ---- C8
\* C8 as stated: with a required setting absent or empty, Config() raises
\* ValueError, so that neither the logger is set up nor a page fetched.
C8_MissingSettingRaisesValueError ==
    RequiredMissing =>
        /\ mpc = "start" \/ (mpc = "crashed" /\ error = "ValueError")
        /\ ~loggerSet
        /\ fetchLog = << >>

\* ---- C9
\* C9 as stated, for a finite acyclic chain whose fetches all succeed: the
\* pages are fetched in chain order, each once, one page fetched and processed
\* before the next is fetched, the crawl does not stop otherwise than by
\* returning, and it returns with the counter at the length of the chain.
C9_CrawlReturnsAfterTheChain ==
    (calls = 1 /\ GoodChain(callMark.start)) =>
        LET c == Chain(callMark.start, NPages + 1) IN
        /\ IsPrefix(fetchLog, c)
        /\ Len(pageLog) = Len(fetchLog) - (IF pc = "process" THEN 1 ELSE 0)
        /\ pc \in {"fetch", "process", "returned"}
        /\ pc = "returned" => fetchLog = c /\ parsed_pages_count = Len(c)

\* ---- C10
\* C10 as stated: the list a top-level call returns holds the names of the
\* pages visited during that call only, and the counter is then the number of
\* pages that call visited.
C10_EachCallOwnsItsState ==
    pc = "returned" =>
        /\ result = ConcatNames(CallFetches)
        /\ parsed_pages_count = Len(pageLog) - callMark.processed

====
